---- MODULE Spec2Model ----
(***************************************************************************)
(* Model of src/backend/terminal.rs: the cursive backend built on the      *)
(* `terminal` crate.  Three specifications share this module:              *)
(*   SpecKey    the pure conversion  impl From<TKeyEvent> for Event        *)
(*   SpecColor  the pure conversion  impl From<theme::Color> for TColor    *)
(*   Spec       the Backend object: init, poll_event/map_key, set_color,   *)
(*              clear, print_at, print_at_rep, set_effect, unset_effect,   *)
(*              refresh, finish, with every driver call able to fail       *)
(*   FairSpec   Spec plus weak fairness of the print_at_rep loop body      *)
(*                                                                         *)
(* Values are tagged tuples: <<"Char", "a">>, <<"F", 3>>, <<"Dark","Red">>;*)
(* two values with the same tag always have the same shape.                *)
(***************************************************************************)
EXTENDS Naturals, Sequences, FiniteSets

VARIABLES
    keyIn, keyOut,            \* SpecKey: the raw TKeyEvent and the Event made of it
    colIn, colOut, debug_assertions,
                              \* SpecColor: theme::Color, its TColor, the build profile
    status,                   \* "Active" | "Failed" (a panic unwound) | "Finished"
    current_style,            \* Backend.current_style
    last_button,              \* Backend.last_button
    tty,                      \* what the driver has done to the terminal
    call,                     \* the backend call made most recently, with its input
    ret,                      \* what that call returned
    acts,                     \* the driver actions that call performed, in order
    prev,                     \* the call before it, kept when it was a set_color
    pressed,                  \* history: raw button of the most recent Down event
    pc, dupes_left            \* position inside print_at_rep's loop

keyVars == <<keyIn, keyOut>>
colVars == <<colIn, colOut, debug_assertions>>
backendVars == <<status, current_style, last_button, tty, call, ret, acts, prev,
                 pressed, pc, dupes_left>>
vars == <<keyVars, colVars, backendVars>>

(***************************************************************************)
(* Bounds of the model.                                                    *)
(***************************************************************************)
MaxF == 2                     \* function keys F(0) .. F(MaxF)
MaxComp == 6                  \* RgbLowRes components range over 0 .. MaxComp
MaxRep == 3                   \* print_at_rep repetitions range over 0 .. MaxRep

(***************************************************************************)
(* Key events.                                                             *)
(***************************************************************************)
SHIFT == {"SHIFT"}
CONTROL == {"CONTROL"}
ALT == {"ALT"}
NoModifiers == {}

Modifiers == SUBSET (SHIFT \cup CONTROL \cup ALT)

\* A mis-built constant: CONTROL | SHIFT where CONTROL | ALT was meant.
CTRL_ALT_Wrong == CONTROL \cup SHIFT

CTRL_ALT == CONTROL \cup ALT
CTRL_SHIFT == CONTROL \cup SHIFT
ALT_SHIFT == ALT \cup SHIFT

Chars == {"a", "c", "x"}

PlainCodes == {"Esc", "Backspace", "Left", "Right", "Up", "Down", "Home", "End",
               "PageUp", "PageDown", "Delete", "Insert", "Enter", "Tab"}

\* The values of TKeyCode.
KeyCodes == {<<n>> : n \in PlainCodes} \cup {<<"F", n>> : n \in 0..MaxF}
            \cup {<<"BackTab">>, <<"Null">>} \cup {<<"Char", c>> : c \in Chars}

\* Key::from_f, which lives in event.rs.
from_f(n) == <<"F", n>>

\* impl From<TKeyCode> for Key
KeyFrom(code) ==
    IF code[1] = "Delete" THEN <<"Del">>
    ELSE IF code[1] = "Insert" THEN <<"Ins">>
    ELSE IF code[1] = "F" THEN from_f(code[2])
    ELSE IF code[1] \in {"BackTab", "Char", "Null"} THEN <<"Tab">>
    ELSE <<code[1]>>

\* The key symbols a raw code names by itself (everything but the placeholders).
SymbolCodes == {c \in KeyCodes : c[1] \notin {"BackTab", "Char", "Null"}}

KeyEvents == [modifiers : Modifiers, code : KeyCodes]

\* The arms of the match in From<TKeyEvent> for Event, numbered top to bottom.
\* A constant pattern such as `modifiers: TKeyModifiers::CONTROL` matches by
\* equality of the whole bit set.
ArmMatches(i, ev) ==
    LET m == ev.modifiers
        isChar == ev.code[1] = "Char" IN
    CASE i = 1 -> m = CONTROL /\ ev.code = <<"Char", "c">>
      [] i = 2 -> m = CONTROL /\ isChar
      [] i = 3 -> m = ALT /\ isChar
      [] i = 4 -> m = SHIFT /\ isChar
      [] i = 5 -> m = CTRL_ALT
      [] i = 6 -> m = CTRL_SHIFT
      [] i = 7 -> m = ALT_SHIFT
      [] i = 8 -> m = CONTROL
      [] i = 9 -> m = ALT
      [] i = 10 -> m = SHIFT
      [] i = 11 -> isChar
      [] i = 12 -> ev.code = <<"BackTab">>
      [] i = 13 -> TRUE

ArmResult(i, ev) ==
    CASE i = 1 -> <<"Exit">>
      [] i = 2 -> <<"CtrlChar", ev.code[2]>>
      [] i = 3 -> <<"AltChar", ev.code[2]>>
      [] i = 4 -> <<"Char", ev.code[2]>>
      [] i = 5 -> <<"CtrlAlt", KeyFrom(ev.code)>>
      [] i = 6 -> <<"CtrlShift", KeyFrom(ev.code)>>
      [] i = 7 -> <<"AltShift", KeyFrom(ev.code)>>
      [] i = 8 -> <<"Ctrl", KeyFrom(ev.code)>>
      [] i = 9 -> <<"Alt", KeyFrom(ev.code)>>
      [] i = 10 -> <<"Shift", KeyFrom(ev.code)>>
      [] i = 11 -> <<"Char", ev.code[2]>>
      [] i = 12 -> <<"Shift", <<"Tab">>>>
      [] i = 13 -> <<"Key", KeyFrom(ev.code)>>

\* The general Control+character arm written above the Exit arm.
ArmOrder_ExitLate == <<2, 1, 3, 4, 5, 6, 7, 8, 9, 10, 11, 12, 13>>

\* The order in which the match tries its arms.
ArmOrder == <<1, 2, 3, 4, 5, 6, 7, 8, 9, 10, 11, 12, 13>>

\* impl From<TKeyEvent> for Event: the first arm that matches decides.
EventFromKey(ev) ==
    LET hits == {k \in 1..Len(ArmOrder) : ArmMatches(ArmOrder[k], ev)}
        first == CHOOSE k \in hits : \A j \in hits : k <= j
    IN  ArmResult(ArmOrder[first], ev)

NoEvent == <<"NoEvent">>

InitKey ==
    /\ keyIn \in KeyEvents
    /\ keyOut = NoEvent

\* Event::from(key_event)
Convert ==
    /\ keyOut = NoEvent
    /\ keyOut' = EventFromKey(keyIn)
    /\ UNCHANGED keyIn

\* The next raw key event arrives.
Arrive ==
    /\ keyOut # NoEvent
    /\ keyIn' \in KeyEvents
    /\ keyOut' = NoEvent

(***************************************************************************)
(* Colours.                                                                *)
(***************************************************************************)
BaseColors == {"Black", "Red", "Green", "Yellow", "Blue", "Magenta", "Cyan", "White"}

Comps == 0..MaxComp

\* The values of theme::Color the model converts.
ThemeColors ==
    {<<"Dark", b>> : b \in BaseColors} \cup {<<"Light", b>> : b \in BaseColors}
    \cup {<<"Rgb", 0, 128, 255>>, <<"Rgb", 7, 7, 7>>}
    \cup {<<"RgbLowRes", r, g, b>> : r \in Comps, g \in Comps, b \in Comps}
    \cup {<<"TerminalDefault">>}

\* u8 arithmetic: a release build wraps, a debug build panics on overflow.
U8(x) == x % 256

\* The cube's strides exchanged: 16 + 6 * r + 36 * g + b.
PaletteIndex_Swapped(r, g, b) == U8(U8(U8(16 + U8(6 * r)) + U8(36 * g)) + b)

\* 16 + 36 * r + 6 * g + b, evaluated left to right in u8.
PaletteIndex(r, g, b) == U8(U8(U8(16 + U8(36 * r)) + U8(6 * g)) + b)

\* Some step of that expression leaves the range of u8.
PaletteOverflows(r, g, b) ==
    \/ 36 * r > 255
    \/ 16 + U8(36 * r) > 255
    \/ 6 * g > 255
    \/ U8(16 + U8(36 * r)) + U8(6 * g) > 255
    \/ U8(U8(16 + U8(36 * r)) + U8(6 * g)) + b > 255

Panic == <<"panic">>

\* impl From<theme::Color> for TColor, in a build with (dbg) or without the
\* debug assertions and overflow checks.
TColorFrom(c, dbg) ==
    CASE c[1] = "Dark" ->
           (CASE c[2] = "Black" -> <<"Black">>
              [] c[2] = "Red" -> <<"DarkRed">>
              [] c[2] = "Green" -> <<"DarkGreen">>
              [] c[2] = "Yellow" -> <<"DarkYellow">>
              [] c[2] = "Blue" -> <<"DarkBlue">>
              [] c[2] = "Magenta" -> <<"DarkMagenta">>
              [] c[2] = "Cyan" -> <<"DarkCyan">>
              [] c[2] = "White" -> <<"Grey">>)
      [] c[1] = "Light" ->
           (CASE c[2] = "Black" -> <<"Grey">>
              [] OTHER -> <<c[2]>>)
      [] c[1] = "Rgb" -> <<"Rgb", c[2], c[3], c[4]>>
      [] c[1] = "RgbLowRes" ->
           IF dbg /\ (c[2] > 5 \/ c[3] > 5 \/ c[4] > 5 \/ PaletteOverflows(c[2], c[3], c[4]))
           THEN Panic
           ELSE <<"AnsiValue", PaletteIndex(c[2], c[3], c[4])>>
      [] c[1] = "TerminalDefault" -> <<"Reset">>

NoColor == <<"NoColor">>

InitColor ==
    /\ colIn \in ThemeColors
    /\ colOut = NoColor
    /\ debug_assertions \in BOOLEAN

\* TColor::from(colour)
ConvertColor ==
    /\ colOut = NoColor
    /\ colOut' = TColorFrom(colIn, debug_assertions)
    /\ UNCHANGED <<colIn, debug_assertions>>

\* The next colour to convert.
ArriveColor ==
    /\ colOut # NoColor
    /\ colIn' \in ThemeColors
    /\ colOut' = NoColor
    /\ UNCHANGED debug_assertions

(***************************************************************************)
(* The driver: the actions the backend asks of terminal::Terminal, and     *)
(* what they do to the terminal.                                           *)
(***************************************************************************)
Unset == <<"Unset">>          \* the colours the terminal had before the program

\* What one successful driver action does to the terminal.
Act(t, a) ==
    CASE a[1] = "EnterAlternateScreen" -> [t EXCEPT !.alt = TRUE]
      [] a[1] = "LeaveAlternateScreen" -> [t EXCEPT !.alt = FALSE]
      [] a[1] = "EnableRawMode" -> [t EXCEPT !.raw = TRUE]
      [] a[1] = "DisableRawMode" -> [t EXCEPT !.raw = FALSE]
      [] a[1] = "HideCursor" -> [t EXCEPT !.hidden = TRUE]
      [] a[1] = "ShowCursor" -> [t EXCEPT !.hidden = FALSE]
      [] a[1] = "SetForegroundColor" -> [t EXCEPT !.fg = a[2]]
      [] a[1] = "SetBackgroundColor" -> [t EXCEPT !.bg = a[2]]
      [] a[1] = "ResetColor" -> [t EXCEPT !.fg = <<"Reset">>, !.bg = <<"Reset">>]
      [] OTHER -> t

RECURSIVE ActAll(_, _)
ActAll(t, as) == IF as = <<>> THEN t ELSE ActAll(Act(t, Head(as)), Tail(as))

\* `.unwrap()` on each driver call: with f = 0 every step succeeds, otherwise
\* step f fails, the call panics there and only the steps before it happened.
Performed(steps, f) == IF f = 0 THEN steps ELSE SubSeq(steps, 1, f - 1)
Failures(steps) == 0..Len(steps)
Outcome(f, value) == IF f = 0 THEN value ELSE Panic
StatusAfter(f) == IF f = 0 THEN "Active" ELSE "Failed"

Unit == <<"unit">>

(***************************************************************************)
(* The inputs the backend is driven with.                                  *)
(***************************************************************************)
BackendColors == {<<"Dark", "Black">>, <<"RgbLowRes", 1, 2, 3>>}
ColorPairs == BackendColors \X BackendColors

\* theme::ColorPair::from_256colors(0, 0): colour 0 of the 256 is Dark(Black).
InitialStyle == << <<"Dark", "Black">>, <<"Dark", "Black">> >>

Effects == {"Simple", "Reverse", "Bold", "Italic", "Underline"}
Positions == {<<3, 1>>}
Texts == {<<"a", "b">>}

TMouseButtons == {"Left", "Right", "Middle", "Unknown"}
MousePosition == <<2, 1>>

\* The raw key events poll_event is fed (all of them are converted in SpecKey).
PolledKeys ==
    {[modifiers |-> CONTROL, code |-> <<"Char", "c">>],
     [modifiers |-> NoModifiers, code |-> <<"Enter">>]}

\* The values of TEvent.
RawEvents ==
    {<<"Key", k>> : k \in PolledKeys}
    \cup {<<"Mouse", kind, b, MousePosition>> : kind \in {"Down", "Up", "Drag"},
                                                  b \in TMouseButtons}
    \cup {<<"Mouse", kind, "-", MousePosition>> : kind \in {"ScrollDown", "ScrollUp"}}
    \cup {<<"Resize">>, <<"Unknown">>}

(***************************************************************************)
(* Backend.                                                                *)
(***************************************************************************)
\* What init() asks of the driver; the result of EnterAlternateScreen is
\* dropped, the other two are unwrapped.
InitSteps(altOk) ==
    (IF altOk THEN << <<"EnterAlternateScreen">> >> ELSE <<>>)
    \o << <<"EnableRawMode">>, <<"HideCursor">> >>

\* The state Backend::init() returns in.
Init ==
    /\ \E altOk \in BOOLEAN :
          /\ acts = InitSteps(altOk)
          /\ tty = ActAll([alt |-> FALSE, raw |-> FALSE, hidden |-> FALSE,
                           fg |-> Unset, bg |-> Unset], InitSteps(altOk))
    /\ status = "Active"
    /\ current_style = InitialStyle
    /\ last_button = <<"None">>
    /\ call = <<"init">>
    /\ ret = Unit
    /\ prev = <<"none">>
    /\ pressed = "None"
    /\ pc = "idle"
    /\ dupes_left = 0
    /\ debug_assertions = TRUE
    /\ keyIn = [modifiers |-> NoModifiers, code |-> <<"Null">>]
    /\ keyOut = NoEvent
    /\ colIn = <<"TerminalDefault">>
    /\ colOut = NoColor

\* A backend method may be entered: the object is alive and no call is running.
Callable == status = "Active" /\ pc = "idle"

\* The record kept of the call that the new call replaces.
Remember == prev' = IF call[1] = "set_color" THEN <<"set_color", call[2], acts>>
                   ELSE <<"other">>

\* Backend::apply_colors
apply_colors(colors) ==
    << <<"SetForegroundColor", TColorFrom(colors[1], debug_assertions)>>,
       <<"SetBackgroundColor", TColorFrom(colors[2], debug_assertions)>> >>

\* impl From<TMouseButton> for MouseButton
MouseButtonFrom(button) == IF button = "Unknown" THEN "Other" ELSE button

MouseOut(event, position) == <<"Mouse", event, position, <<0, 0>> >>

\* unwrap_or_default() where unwrap() was meant: no press yet counts as Left.
unwrap_Defaulted(opt) == IF opt[1] = "None" THEN <<"Some", "Left">> ELSE opt

\* Option::unwrap on self.last_button: the Some, or a panic.
unwrap(opt) == IF opt[1] = "None" THEN Panic ELSE opt

\* Backend::map_key with self.last_button = lb: the Event (Panic where
\* last_button.unwrap() panics) and the new value of self.last_button.
map_key(lb, event) ==
    CASE event[1] = "Key" -> [event |-> EventFromKey(event[2]), last_button |-> lb]
      [] event[1] = "Mouse" ->
           (CASE event[2] = "Down" ->
                   [event |-> MouseOut(<<"Press", MouseButtonFrom(event[3])>>, event[4]),
                    last_button |-> <<"Some", MouseButtonFrom(event[3])>>]
              [] event[2] = "Up" ->
                   [event |-> IF unwrap(lb) = Panic THEN Panic
                              ELSE MouseOut(<<"Release", unwrap(lb)[2]>>, event[4]),
                    last_button |-> lb]
              [] event[2] = "Drag" ->
                   [event |-> IF unwrap(lb) = Panic THEN Panic
                              ELSE MouseOut(<<"Hold", unwrap(lb)[2]>>, event[4]),
                    last_button |-> lb]
              [] OTHER -> [event |-> MouseOut(<<"WheelDown">>, event[4]), last_button |-> lb])
      [] event[1] = "Resize" -> [event |-> <<"WindowResize">>, last_button |-> lb]
      [] event[1] = "Unknown" -> [event |-> <<"Unknown", <<>> >>, last_button |-> lb]

\* Backend::poll_event when the driver hands over a raw event.
poll_event ==
    /\ Callable
    /\ \E raw \in RawEvents :
          LET m == map_key(last_button, raw) IN
          /\ call' = <<"poll_event", raw>>
          /\ ret' = IF m.event = Panic THEN Panic ELSE <<"Some", m.event>>
          /\ status' = IF m.event = Panic THEN "Failed" ELSE "Active"
          /\ last_button' = m.last_button
          /\ pressed' = IF raw[1] = "Mouse" /\ raw[2] = "Down" THEN raw[3] ELSE pressed
    /\ acts' = << <<"GetEvent">> >>
    /\ Remember
    /\ UNCHANGED <<current_style, tty, pc, dupes_left, keyVars, colVars>>

\* Backend::poll_event when the driver reports no event (None), or its
\* `get` fails and the unwrap panics.
poll_nothing ==
    /\ Callable
    /\ \E f \in 0..1 :
          /\ call' = <<"poll_event", <<"nothing">> >>
          /\ acts' = Performed(<< <<"GetEvent">> >>, f)
          /\ ret' = Outcome(f, <<"None">>)
          /\ status' = StatusAfter(f)
    /\ Remember
    /\ UNCHANGED <<current_style, last_button, pressed, tty, pc, dupes_left,
                   keyVars, colVars>>

\* The body shared by the calls that only talk to the driver.
DriverCall(c, steps, value) ==
    /\ Callable
    /\ \E f \in Failures(steps) :
          /\ acts' = Performed(steps, f)
          /\ tty' = ActAll(tty, Performed(steps, f))
          /\ ret' = Outcome(f, value)
          /\ status' = StatusAfter(f)
    /\ call' = c
    /\ Remember

\* The test `current_style != color` left out: the colours are always applied.
SetColorSteps_NoDedup(current, color) == apply_colors(color)

\* What set_color asks of the driver when current_style is `current`.
SetColorSteps(current, color) == IF current # color THEN apply_colors(color) ELSE <<>>

\* Backend::set_color
set_color ==
    \E color \in ColorPairs :
       /\ DriverCall(<<"set_color", color>>, SetColorSteps(current_style, color),
                     <<"pair", current_style>>)
       /\ current_style' = IF current_style # color /\ status' = "Active"
                           THEN color ELSE current_style
       /\ UNCHANGED <<last_button, pressed, pc, dupes_left, keyVars, colVars>>

\* Backend::clear
clear ==
    \E color \in BackendColors :
       /\ DriverCall(<<"clear", color>>,
                     apply_colors(<<color, color>>) \o << <<"ClearTerminal", "All">> >>,
                     Unit)
       /\ UNCHANGED <<current_style, last_button, pressed, pc, dupes_left,
                      keyVars, colVars>>

\* The attribute set_effect sets, and the one unset_effect sets.
AttrOn(effect) ==
    CASE effect = "Reverse" -> "Reversed"
      [] effect = "Bold" -> "Bold"
      [] effect = "Italic" -> "Italic"
      [] effect = "Underline" -> "Underlined"
AttrOff(effect) ==
    CASE effect = "Reverse" -> "ReversedOff"
      [] effect = "Bold" -> "NormalIntensity"
      [] effect = "Italic" -> "ItalicOff"
      [] effect = "Underline" -> "UnderlinedOff"

\* Backend::set_attr
set_attr(attr) == << <<"SetAttribute", attr>> >>

\* Backend::set_effect
set_effect ==
    \E effect \in Effects :
       /\ DriverCall(<<"set_effect", effect>>,
                     IF effect = "Simple" THEN <<>> ELSE set_attr(AttrOn(effect)), Unit)
       /\ UNCHANGED <<current_style, last_button, pressed, pc, dupes_left,
                      keyVars, colVars>>

\* Backend::unset_effect
unset_effect ==
    \E effect \in Effects :
       /\ DriverCall(<<"unset_effect", effect>>,
                     IF effect = "Simple" THEN <<>> ELSE set_attr(AttrOff(effect)), Unit)
       /\ UNCHANGED <<current_style, last_button, pressed, pc, dupes_left,
                      keyVars, colVars>>

\* Backend::refresh
refresh ==
    /\ DriverCall(<<"refresh">>, << <<"FlushBatch">> >>, Unit)
    /\ UNCHANGED <<current_style, last_button, pressed, pc, dupes_left, keyVars, colVars>>

\* `x as u16`
AsU16(x) == x % 65536

MoveCursorTo(pos) == <<"MoveCursorTo", AsU16(pos[1]), AsU16(pos[2])>>

\* Backend::print_at; io::Write::write may take only the first k bytes.
print_at ==
    \E pos \in Positions, text \in Texts :
       \E k \in 1..Len(text) :
          /\ DriverCall(<<"print_at", pos, text>>,
                        <<MoveCursorTo(pos), <<"Write", SubSeq(text, 1, k)>>,
                          <<"FlushBatch">> >>,
                        Unit)
          /\ UNCHANGED <<current_style, last_button, pressed, pc, dupes_left,
                         keyVars, colVars>>

\* The loop started with every repetition still to write.
FirstDupes_All(repetitions) == repetitions

\* let mut dupes_left = repetitions - 1
FirstDupes(repetitions) == repetitions - 1

\* Backend::print_at_rep up to its loop: nothing for 0 repetitions, else the
\* batched cursor move and the first write_all.
print_at_rep ==
    \E pos \in Positions, repetitions \in 0..MaxRep, text \in Texts :
       LET steps == IF repetitions > 0
                    THEN <<MoveCursorTo(pos), <<"Write", text>> >> ELSE <<>> IN
       /\ Callable
       /\ \E f \in Failures(steps) :
             /\ acts' = Performed(steps, f)
             /\ status' = StatusAfter(f)
             /\ pc' = IF repetitions > 0 /\ f = 0 THEN "loop" ELSE "idle"
             /\ ret' = IF repetitions > 0 /\ f = 0 THEN <<"running">> ELSE Outcome(f, Unit)
             /\ dupes_left' = IF repetitions > 0 /\ f = 0 THEN FirstDupes(repetitions) ELSE 0
       /\ call' = <<"print_at_rep", pos, repetitions, text>>
       /\ Remember
       /\ UNCHANGED <<current_style, last_button, pressed, tty, keyVars, colVars>>

\* One turn of `while dupes_left > 0`: write_all, then dupes_left -= 1.
rep_write ==
    /\ pc = "loop"
    /\ dupes_left > 0
    /\ \E f \in 0..1 :
          /\ acts' = acts \o Performed(<< <<"Write", call[4]>> >>, f)
          /\ status' = StatusAfter(f)
          /\ pc' = IF f = 0 THEN "loop" ELSE "idle"
          /\ ret' = IF f = 0 THEN ret ELSE Panic
          /\ dupes_left' = IF f = 0 THEN dupes_left - 1 ELSE 0
    /\ UNCHANGED <<current_style, last_button, pressed, tty, call, prev, keyVars, colVars>>

\* The loop's test fails and print_at_rep returns.
rep_return ==
    /\ pc = "loop"
    /\ dupes_left = 0
    /\ pc' = "idle"
    /\ ret' = Unit
    /\ UNCHANGED <<status, current_style, last_button, pressed, tty, call, acts, prev,
                   dupes_left, keyVars, colVars>>

\* What finish() asks of the driver, each result unwrapped.
FinishSteps ==
    << <<"LeaveAlternateScreen">>, <<"ShowCursor">>, <<"DisableRawMode">>,
       <<"ResetColor">> >>

\* Backend::finish, called once: by the owner at shutdown, or while a panic
\* of an earlier call unwinds through the owner.
finish ==
    /\ status \in {"Active", "Failed"}
    /\ pc = "idle"
    /\ call[1] # "finish"
    /\ \E f \in Failures(FinishSteps) :
          /\ acts' = Performed(FinishSteps, f)
          /\ tty' = ActAll(tty, Performed(FinishSteps, f))
          /\ ret' = Outcome(f, Unit)
          /\ status' = IF f = 0 THEN "Finished" ELSE "Failed"
    /\ call' = <<"finish">>
    /\ Remember
    /\ UNCHANGED <<current_style, last_button, pressed, pc, dupes_left, keyVars, colVars>>

Next ==
    \/ poll_event
    \/ poll_nothing
    \/ set_color
    \/ clear
    \/ set_effect
    \/ unset_effect
    \/ refresh
    \/ print_at
    \/ print_at_rep
    \/ rep_write
    \/ rep_return
    \/ finish

Spec == Init /\ [][Next]_vars

\* The thread inside print_at_rep keeps running its loop.
FairSpec == Spec /\ WF_vars(rep_write) /\ WF_vars(rep_return)

(***************************************************************************)
(* The two conversions on their own.                                       *)
(***************************************************************************)
\* The backend left as init() returned it.
BackendIdle ==
    /\ acts = InitSteps(TRUE)
    /\ tty = ActAll([alt |-> FALSE, raw |-> FALSE, hidden |-> FALSE,
                     fg |-> Unset, bg |-> Unset], InitSteps(TRUE))
    /\ status = "Active"
    /\ current_style = InitialStyle
    /\ last_button = <<"None">>
    /\ call = <<"init">>
    /\ ret = Unit
    /\ prev = <<"none">>
    /\ pressed = "None"
    /\ pc = "idle"
    /\ dupes_left = 0

InitKeySpec ==
    /\ InitKey
    /\ BackendIdle
    /\ debug_assertions = TRUE
    /\ colIn = <<"TerminalDefault">>
    /\ colOut = NoColor

NextKey ==
    \/ Convert /\ UNCHANGED <<colVars, backendVars>>
    \/ Arrive /\ UNCHANGED <<colVars, backendVars>>

SpecKey == InitKeySpec /\ [][NextKey]_vars

InitColorSpec ==
    /\ InitColor
    /\ BackendIdle
    /\ keyIn = [modifiers |-> NoModifiers, code |-> <<"Null">>]
    /\ keyOut = NoEvent

NextColor ==
    \/ ConvertColor /\ UNCHANGED <<keyVars, backendVars>>
    \/ ArriveColor /\ UNCHANGED <<keyVars, backendVars>>

SpecColor == InitColorSpec /\ [][NextColor]_vars

(***************************************************************************)
(* Properties.                                                             *)
(***************************************************************************)
IsMouse(kinds) ==
    call[1] = "poll_event" /\ call[2][1] = "Mouse" /\ call[2][2] \in kinds

\* C1: a drag maps to Hold(B) and a release to Release(B), B being the button
\* of the most recent press before it, whatever button the raw record carries;
\* with no press before it the mapping panics.
C1_MouseFollowsLastPress ==
    IsMouse({"Up", "Drag"}) =>
       IF pressed = "None"
       THEN ret = Panic /\ status = "Failed"
       ELSE ret = <<"Some", MouseOut(<<IF call[2][2] = "Up" THEN "Release" ELSE "Hold",
                                       IF pressed = "Unknown" THEN "Other" ELSE pressed>>,
                                     call[2][4])>>

\* A drag whose own button is not the pressed one is reported with the pressed one.
C1_Witness ==
    /\ IsMouse({"Drag"})
    /\ pressed = "Right"
    /\ call[2][3] = "Left"
    /\ ret = <<"Some", <<"Mouse", <<"Hold", "Right">>, MousePosition, <<0, 0>> >> >>

ColourActs(as) == SelectSeq(as, LAMBDA a : a[1] \in {"SetForegroundColor",
                                                      "SetBackgroundColor"})

\* A set_color step returns the style tracked before it and touches the
\* driver only when the pair differs from that style.
C2_Step ==
    call'[1] = "set_color" =>
       /\ ret' \in {Panic, <<"pair", current_style>>}
       /\ current_style = call'[2] =>
             acts' = <<>> /\ current_style' = current_style /\ ret' # Panic
       /\ current_style # call'[2] /\ ret' # Panic =>
             /\ current_style' = call'[2]
             /\ Len(acts') = 2

\* Two set_color calls in a row, both returned.
C2_RoundTrip ==
    call[1] = "set_color" /\ prev[1] = "set_color" /\ ret # Panic =>
       /\ ret = <<"pair", prev[2]>>
       /\ prev[2] = call[2] =>
             /\ acts = <<>>
             /\ Len(ColourActs(prev[3])) <= 2
             /\ current_style = call[2]

\* C2: set_color(pair) returns the pair tracked just before the call and
\* applies colours to the driver only when pair differs from it; set_color(p)
\* twice in a row applies colours at most once, and set_color(p1) followed by
\* set_color(p2) returns p1.
C2_SetColorDedup == [][C2_Step]_vars /\ []C2_RoundTrip

\* set_color(p) applied p, and the same call right after it did nothing.
C2_Witness ==
    /\ call[1] = "set_color"
    /\ prev[1] = "set_color" /\ prev[2] = call[2]
    /\ Len(ColourActs(prev[3])) = 2
    /\ acts = <<>>
    /\ ret = <<"pair", call[2]>>

\* C3: finish() issues leave-alternate-screen, show-cursor, disable-raw-mode
\* and reset-colour in that order, and shows the cursor and leaves raw mode
\* even when leaving the alternate screen fails or an earlier call failed.
\* (Len(acts) = 0 is the failure of the first step; 1..3 are failures of the
\* later steps, which nothing is said to tolerate.)
C3_FinishRunsToCompletion ==
    call[1] = "finish" /\ Len(acts) \notin 1..3 =>
       /\ ~tty.hidden
       /\ ~tty.raw
       /\ SelectSeq(acts, LAMBDA a : a[1] # "LeaveAlternateScreen")
             = << <<"ShowCursor">>, <<"DisableRawMode">>, <<"ResetColor">> >>

Converted(kind) == keyOut # NoEvent /\ keyIn.code[1] = kind

\* C4: a BackTab key event yields Shift(Tab) under every modifier set.
C4_BackTabAlwaysShiftTab ==
    Converted("BackTab") => keyOut = <<"Shift", <<"Tab">> >>

\* C5: for a key symbol K, exactly Control+Alt gives CtrlAlt(K), exactly
\* Control+Shift gives CtrlShift(K), exactly Alt+Shift gives AltShift(K), and
\* no modifier set holding both Control and Alt gives Ctrl(K) or Alt(K).
C5_CombinedModifiersFirst ==
    keyOut # NoEvent /\ keyIn.code \in SymbolCodes =>
       /\ keyIn.modifiers = {"CONTROL", "ALT"} => keyOut = <<"CtrlAlt", KeyFrom(keyIn.code)>>
       /\ keyIn.modifiers = {"CONTROL", "SHIFT"} =>
             keyOut = <<"CtrlShift", KeyFrom(keyIn.code)>>
       /\ keyIn.modifiers = {"ALT", "SHIFT"} => keyOut = <<"AltShift", KeyFrom(keyIn.code)>>
       /\ {"CONTROL", "ALT"} \subseteq keyIn.modifiers => keyOut[1] \notin {"Ctrl", "Alt"}

C5_Witness ==
    /\ keyIn = [modifiers |-> {"CONTROL", "ALT"}, code |-> <<"Left">>]
    /\ keyOut = <<"CtrlAlt", <<"Left">> >>

\* C6: Char(c) with no modifier yields Char(c); with exactly Control it
\* yields Exit for 'c' and CtrlChar(c) for every other c.
C6_CharAndControl ==
    Converted("Char") =>
       /\ keyIn.modifiers = {} => keyOut = <<"Char", keyIn.code[2]>>
       /\ keyIn.modifiers = {"CONTROL"} =>
             keyOut = IF keyIn.code[2] = "c" THEN <<"Exit">>
                      ELSE <<"CtrlChar", keyIn.code[2]>>

C6_Witness ==
    /\ keyIn = [modifiers |-> {"CONTROL"}, code |-> <<"Char", "c">>]
    /\ keyOut = <<"Exit">>

RECURSIVE Repeat(_, _)
Repeat(text, n) == IF n = 0 THEN <<>> ELSE text \o Repeat(text, n - 1)

RECURSIVE Written(_)
Written(as) ==
    IF as = <<>> THEN <<>>
    ELSE (IF Head(as)[1] = "Write" THEN Head(as)[2] ELSE <<>>) \o Written(Tail(as))

\* print_at_rep returned: nothing for n = 0, else one cursor move to pos and
\* then n writes of text and nothing else; inside the loop the writes done and
\* the writes left add up to n.
C7_Result ==
    call[1] = "print_at_rep" =>
       /\ ret = Unit /\ call[3] = 0 => acts = <<>>
       /\ ret = Unit /\ call[3] > 0 =>
             /\ Len(acts) = call[3] + 1
             /\ acts[1] = <<"MoveCursorTo", call[2][1], call[2][2]>>
             /\ \A i \in 2..Len(acts) : acts[i] = <<"Write", call[4]>>
             /\ Written(acts) = Repeat(call[4], call[3])
       /\ pc = "loop" => Len(acts) - 1 + dupes_left = call[3]

\* C7: print_at_rep(pos, n, text) issues nothing when n = 0, and for n > 0
\* one cursor move to pos followed by exactly n writes of text with no move
\* between them; its loop terminates.
C7_PrintAtRep == []C7_Result /\ (pc = "loop" ~> pc = "idle")

\* print_at_rep(pos, 3, "ab") wrote "ababab" after a single move.
C7_Witness ==
    /\ call[1] = "print_at_rep" /\ call[3] = 3 /\ ret = Unit
    /\ Written(acts) = <<"a", "b", "a", "b", "a", "b">>
    /\ Len(SelectSeq(acts, LAMBDA a : a[1] = "MoveCursorTo")) = 1

InCube(c) == c[2] <= 5 /\ c[3] <= 5 /\ c[4] <= 5

\* C8: RgbLowRes(r, g, b) with r, g, b in 0..5 maps to palette index
\* 16 + 36r + 6g + b, which lies in 16..231 and overflows no u8 step; a
\* component above 5 is caught by the debug assertions instead.
C8_PaletteIndex ==
    colOut # NoColor /\ colIn[1] = "RgbLowRes" =>
       /\ InCube(colIn) =>
             /\ colOut = <<"AnsiValue", 16 + 36 * colIn[2] + 6 * colIn[3] + colIn[4]>>
             /\ colOut[2] \in 16..231
             /\ ~PaletteOverflows(colIn[2], colIn[3], colIn[4])
       /\ ~InCube(colIn) /\ debug_assertions => colOut = Panic

C8_Witness ==
    /\ colIn = <<"RgbLowRes", 5, 5, 5>>
    /\ colOut = <<"AnsiValue", 231>>

\* C9: a key event whose code is Char(c) yields Char(c), CtrlChar(c),
\* AltChar(c) or Exit under every modifier set, never an event carrying the
\* placeholder symbol Tab.
C9_CharNeverPlaceholder ==
    Converted("Char") =>
       /\ keyOut[1] \in {"Char", "CtrlChar", "AltChar", "Exit"}
       /\ keyOut[1] # "Exit" => keyOut[2] = keyIn.code[2]

\* C10: whenever set_color(pair) skips the driver calls, the terminal is
\* already painting with pair (the tracked style is the pair last applied).
C10_SkipMeansPainted ==
    call[1] = "set_color" /\ ret # Panic /\ acts = <<>> =>
       /\ tty.fg = TColorFrom(call[2][1], debug_assertions)
       /\ tty.bg = TColorFrom(call[2][2], debug_assertions)

====
